---- MODULE Spec2Model ----
(***************************************************************************)
(* Model of the Shopify -> HubSpot loyalty sync webhook handler.           *)
(*                                                                         *)
(* Two revisions of the handler live in the repository:                    *)
(*   "hmac"  : src/unnamed/part_000 (HMAC verification, debug, no          *)
(*             try/catch around the pipeline)                              *)
(*   "plain" : src/api/hook.js      (no HMAC, pipeline wrapped in          *)
(*             try/catch that answers 500)                                 *)
(* The variable rev says which revision is deployed.  One action models    *)
(* the handler from the resumption of one await up to the next await (or   *)
(* the response): JavaScript runs that stretch without interleaving.       *)
(***************************************************************************)
EXTENDS Integers, Sequences, FiniteSets, TLC

(* ------------------------------ bounds -------------------------------- *)

\* largest number of CRM contacts that share the searched email at start
MaxDup == 3

(* --------------------------- program constants ------------------------ *)

\* let customerId = null  (also what `x || null` yields for a missing id)
NoId == 0

\* limit: 20 in the CRM search request
SearchLimit == 20

(* ------------------------------ options ------------------------------- *)

None == <<>>
Some(x) == <<x>>

(* ------------------------------ strings ------------------------------- *)
\* A string is a sequence of one-character strings.

LowerChar(c) ==
  CASE c = "A" -> "a"
    [] c = "B" -> "b"
    [] OTHER -> c

\* a bug: the case of an email left as it came
toLowerCaseMissing(s) == s

\* String.prototype.toLowerCase
toLowerCase(s) == [i \in 1..Len(s) |-> LowerChar(s[i])]

Digits == {"0", "1", "2", "3", "4", "5", "6", "7", "8", "9"}

DigitVal(c) ==
  CASE c = "0" -> 0 [] c = "1" -> 1 [] c = "2" -> 2 [] c = "3" -> 3
    [] c = "4" -> 4 [] c = "5" -> 5 [] c = "6" -> 6 [] c = "7" -> 7
    [] c = "8" -> 8 [] c = "9" -> 9

RECURSIVE DigitsVal(_)
DigitsVal(s) ==
  IF s = <<>> THEN 0 ELSE 10 * DigitsVal(SubSeq(s, 1, Len(s) - 1)) + DigitVal(s[Len(s)])

RECURSIVE Trim(_)
\* whitespace is stripped by Number() before it parses
Trim(s) ==
  IF s = <<>> THEN s
  ELSE IF Head(s) = " " THEN Trim(Tail(s))
  ELSE IF s[Len(s)] = " " THEN Trim(SubSeq(s, 1, Len(s) - 1))
  ELSE s

(* ------------------------------ JS values ----------------------------- *)
\* t: "num" | "str" | "bool" | "null" | "nan"; one record shape for all.

JNum(n) == [t |-> "num", n |-> n, s |-> <<>>, b |-> FALSE]
JStr(s) == [t |-> "str", n |-> 0, s |-> s, b |-> FALSE]
JBool(b) == [t |-> "bool", n |-> 0, s |-> <<>>, b |-> b]
JNull == [t |-> "null", n |-> 0, s |-> <<>>, b |-> FALSE]
JNaN == [t |-> "nan", n |-> 0, s |-> <<>>, b |-> FALSE]
\* the value of a property that is not there
Undefined == [t |-> "undefined", n |-> 0, s |-> <<>>, b |-> FALSE]

\* raw.key for a raw map (a function from its own keys to JS values)
Get(raw, k) == IF k \in DOMAIN raw THEN raw[k] ELSE Undefined

\* a ?? b
Nullish(v) == v.t \in {"undefined", "null"}

\* Number(string): "" and blanks give 0, [+-]digits the number, else NaN
NumberOfString(s) ==
  LET u == Trim(s)
      neg == u # <<>> /\ Head(u) = "-"
      body == IF u # <<>> /\ Head(u) \in {"-", "+"} THEN Tail(u) ELSE u
  IN  IF u = <<>> THEN JNum(0)
      ELSE IF body # <<>> /\ \A i \in 1..Len(body) : body[i] \in Digits
           THEN JNum(IF neg THEN 0 - DigitsVal(body) ELSE DigitsVal(body))
           ELSE JNaN

\* a bug: any truthy value counts as true
boolTruthy(v) ==
  \/ v.t = "bool" /\ v.b
  \/ v.t = "str" /\ v.s # <<>>
  \/ v.t = "num" /\ v.n # 0

\* const bool = (v) => !!(v === true || v === "true" || v === 1 || v === "1")
bool(v) ==
  \/ v.t = "bool" /\ v.b
  \/ v.t = "str" /\ v.s = <<"t", "r", "u", "e">>
  \/ v.t = "num" /\ v.n = 1
  \/ v.t = "str" /\ v.s = <<"1">>

IsComma(c) == c = ","

\* toNum(v, d): d for undefined/null, Number() of the comma-stripped string
\* or of the value, d again when that is not finite
toNum(v, d) ==
  IF Nullish(v) THEN d
  ELSE LET n == CASE v.t = "str" -> NumberOfString(SelectSeq(v.s, LAMBDA c : ~IsComma(c)))
                  [] v.t = "bool" -> JNum(IF v.b THEN 1 ELSE 0)
                  [] OTHER -> v
       IN  IF n.t = "num" THEN n.n ELSE d

RECURSIVE FirstDefined(_, _, _)
\* raw.k1 ?? raw.k2 ?? ... ?? last
FirstDefined(raw, keys, last) ==
  IF keys = <<>> THEN last
  ELSE IF ~Nullish(Get(raw, Head(keys))) THEN Get(raw, Head(keys))
  ELSE FirstDefined(raw, Tail(keys), last)

\* a bug: the legacy key `points` consulted before the current ones
PointsKeysLegacyFirst ==
  <<"points", "availablePoints", "pointBalance", "pointsBalance", "balance", "point_balance">>

PointsKeys == <<"availablePoints", "pointBalance", "pointsBalance", "balance", "points", "point_balance">>
ReferralKeys == <<"referralLink", "referral_url", "referralUrl", "referral_link", "referral">>
VipKeys == <<"currentVipTier", "currentVip", "vipTier">>

\* normalizeLoyalty(raw) for a raw that is a plain object
normalizeLoyalty(raw) ==
  LET hasData == DOMAIN raw # {}
      enabled == IF "enabled" \in DOMAIN raw
                 THEN bool(raw["enabled"])
                 ELSE (hasData \/ (Get(raw, "customerStatus") = JStr(<<"A", "C", "T", "I", "V", "E">>)))
      derived == IF Get(raw, "creditedPoints").t # "undefined" /\ Get(raw, "spentAmount").t # "undefined"
                 THEN JNum(toNum(Get(raw, "creditedPoints"), 0) - toNum(Get(raw, "spentAmount"), 0))
                 ELSE Undefined
      pointsCandidate == FirstDefined(raw, PointsKeys, derived)
  IN  [enabled |-> enabled,
       points |-> toNum(pointsCandidate, 0),
       referral |-> FirstDefined(raw, ReferralKeys, JStr(<<>>)),
       vipTier |-> FirstDefined(raw, VipKeys, JStr(<<>>))]

(* --------------------------- the two systems -------------------------- *)

VARIABLES
  rev,        \* which revision of the handler is deployed: "hmac" or "plain"
  updateAll,  \* the UPDATE_ALL_DUPLICATES policy flag
  shop,       \* source system: customer id -> customer record
  crm,        \* CRM: contact id -> contact record
  clock,      \* CRM creation clock (orders createdate, numbers new contacts)
  h           \* request -> state of the handler invocation serving it

vars == <<rev, updateAll, shop, crm, clock, h>>

Reqs == {1}

CustIds == {1, 2}

\* loyalty records the source system may hold
Raw1 ==
  [availablePoints |-> JNum(120), points |-> JNum(7),
   referralLink |-> JStr(<<"r", "1">>), currentVipTier |-> JStr(<<"g">>)]
Raw2 ==
  [enabled |-> JStr(<<"f", "a", "l", "s", "e">>), points |-> JStr(<<"1", ",", "2", "3", "4">>),
   referral_link |-> JStr(<<"r", "2">>)]
EmptyRaw == [k \in {} |-> JNull]

\* a metafield as the source system returns it: its value (a JSON text, named
\* by a token) and what JSON.parse makes of it (parsed = FALSE: it throws)
Metafield(value, parses, data) == [value |-> value, parses |-> parses, data |-> data]
MF1 == Metafield("json1", TRUE, Raw1)
MF2 == Metafield("json2", TRUE, Raw2)
MFBad == Metafield("notjson", FALSE, EmptyRaw)

Customer(exists, email, mf) == [exists |-> exists, email |-> email, mf |-> mf]
NoCustomer == Customer(FALSE, <<>>, None)

\* the states of the source system the runs start from
ShopStates ==
  {[i \in CustIds |-> IF i = 1 THEN c1 ELSE c2] :
     c1 \in {NoCustomer, Customer(TRUE, <<"a">>, None), Customer(TRUE, <<"a">>, Some(MF1))},
     c2 \in {NoCustomer, Customer(TRUE, <<"B">>, Some(MFBad)), Customer(TRUE, <<"B">>, Some(MF2))}}

PropNames == {"loyalty_enabled", "loyalty_points", "loyalty_referral_link", "loyalty_tier"}
NoProps == [k \in PropNames |-> None]

Contact(email, createdate, props, other) ==
  [email |-> email, createdate |-> createdate, props |-> props, other |-> other]

\* k contacts share the email "a" (ids 101.., creation order not the id order),
\* and withB adds one contact of another email
CrmState(k, withB) ==
  [i \in {100 + j : j \in 1..k} \cup (IF withB THEN {201} ELSE {}) |->
     IF i = 201 THEN Contact(<<"b">>, k + 1, NoProps, "keep")
     ELSE Contact(<<"a">>, ((i - 100) % k) + 1, NoProps, "keep")]

\* the states of the CRM the runs start from: up to MaxDup contacts under
\* "a", and with fewer than MaxDup maybe the contact under "b"
CrmStates ==
  {CrmState(k, FALSE) : k \in 0..MaxDup} \cup {CrmState(k, TRUE) : k \in 0..(MaxDup - 1)}

(* ------------------------- source system (Shopify) -------------------- *)

Outcomes == {"ok", "error", "netfail"}

\* the metafield request can also be answered 404 for a customer the search
\* still lists
LoyaltyOutcomes == Outcomes \cup {"notfound"}

\* GET customers/{id}.json: [ok, email]
ShopCustomerById(id) ==
  IF id \in DOMAIN shop /\ shop[id].exists
  THEN [ok |-> TRUE, email |-> shop[id].email]
  ELSE [ok |-> FALSE, email |-> <<>>]

\* GET customers/search.json?query=email:<email>: the matching customer ids
ShopSearchByEmail(email) ==
  {i \in DOMAIN shop : shop[i].exists /\ toLowerCase(shop[i].email) = toLowerCase(email)}

\* getCustomerEmailById: null (<<>>) unless the response is ok
getCustomerEmailById(customerId, outcome) ==
  IF outcome = "ok" /\ ShopCustomerById(customerId).ok
  THEN toLowerCase(ShopCustomerById(customerId).email)
  ELSE <<>>

\* getCustomerIdByEmail: customers[0].id || null, null unless the response is ok
getCustomerIdByEmail(email, outcome) ==
  IF outcome = "ok" /\ ShopSearchByEmail(email) # {}
  THEN CHOOSE i \in ShopSearchByEmail(email) : \A j \in ShopSearchByEmail(email) : i <= j
  ELSE NoId

Meta(notFound, data, raw) == [notFound |-> notFound, data |-> data, raw |-> raw]
NoMeta == Meta(FALSE, EmptyRaw, None)

\* getLoyaltyByCustomerId on an answered request (the throwing outcomes are
\* the handler's): 404 -> {notFound}, no value -> {data: {}, raw: null},
\* else {data: parsed || {}, raw: mf.value}
getLoyaltyByCustomerId(customerId) ==
  IF ~(customerId \in DOMAIN shop /\ shop[customerId].exists) THEN Meta(TRUE, EmptyRaw, None)
  ELSE IF shop[customerId].mf = None THEN Meta(FALSE, EmptyRaw, None)
  ELSE LET mf == shop[customerId].mf[1]
       IN  Meta(FALSE, IF mf.parses THEN mf.data ELSE EmptyRaw, Some(mf.value))

(* ------------------------------ CRM (HubSpot) ------------------------- *)

RECURSIVE NewestFirst(_)
\* the contact ids of a set, most recently created first
NewestFirst(S) ==
  IF S = {} THEN <<>>
  ELSE LET top == CHOOSE i \in S : \A j \in S : crm[j].createdate <= crm[i].createdate
       IN  <<top>> \o NewestFirst(S \ {top})

Take(s, n) == SubSeq(s, 1, IF Len(s) < n THEN Len(s) ELSE n)

\* hsSearchContactIdsByEmail: email EQ, createdate DESCENDING, limit 20
hsSearchContactIdsByEmail(email) ==
  Take(NewestFirst({i \in DOMAIN crm : crm[i].email = email}), SearchLimit)

NewContactId == 300 + clock

\* a bug: the contact is created without its email property
CrmAfterCreateNoEmail(email) ==
  [i \in DOMAIN crm \cup {NewContactId} |->
     IF i = NewContactId THEN Contact(<<>>, clock, NoProps, "") ELSE crm[i]]

\* hsCreateContact: POST contacts {properties: {email}}
CrmAfterCreate(email) ==
  [i \in DOMAIN crm \cup {NewContactId} |->
     IF i = NewContactId THEN Contact(email, clock, NoProps, "") ELSE crm[i]]

\* hsPatchContact: PATCH contacts/{id} {properties}: only the named
\* properties of that contact change
CrmAfterPatch(id, properties) ==
  [crm EXCEPT ![id].props =
     [k \in PropNames |-> IF k \in DOMAIN properties THEN Some(properties[k]) ELSE @[k]]]

(* ------------------------------ requests ------------------------------ *)

\* x-shopify-topic, as its "/"-separated segments
Topics == {<<"customers", "update">>, <<"orders", "paid">>, <<"discounts", "update">>, <<"orders">>}

\* topic.startsWith(family + "/")
startsWith(topic, family) == Len(topic) >= 2 /\ topic[1] = family

PayloadEmails == {<<>>, <<"a">>, <<"B">>}
PayloadIds == {NoId} \cup CustIds

\* the JSON body: top-level email and id, nested customer.email and customer.id
Body(email, id, cemail, cid) == [email |-> email, id |-> id, cemail |-> cemail, cid |-> cid]
EmptyBody == Body(<<>>, NoId, <<>>, NoId)

\* x-shopify-hmac-sha256: absent, the digest of the body, or something else
Signatures == {"", "digest", "other"}

Request(method, topic, body, sig, skip, debug) ==
  [method |-> method, topic |-> topic, body |-> body, sig |-> sig, skip |-> skip, debug |-> debug]

\* the (signature, SKIP_HMAC, debug) combinations requests arrive with:
\* unsigned (with and without debug), badly signed, signed, and the bypass of
\* a bad signature with debug
Deliveries ==
  {<<"", FALSE, FALSE>>, <<"", FALSE, TRUE>>, <<"other", FALSE, FALSE>>,
   <<"digest", FALSE, FALSE>>, <<"other", TRUE, TRUE>>}

\* a customers/* body is the flat customer object, an orders/* body carries the
\* nested customer and maybe a top-level email
Requests ==
  {Request("GET", <<"customers", "update">>, EmptyBody, "", FALSE, FALSE)}
  \cup {Request("POST", <<"customers", "update">>, Body(e, i, <<>>, NoId), y[1], y[2], y[3]) :
          e \in PayloadEmails, i \in PayloadIds, y \in Deliveries}
  \cup {Request("POST", <<"orders", "paid">>, Body(x[1], NoId, x[2], x[3]), y[1], y[2], y[3]) :
          x \in PayloadEmails \X PayloadEmails \X PayloadIds, y \in Deliveries}
  \cup {Request("POST", t, EmptyBody, y[1], y[2], y[3]) :
          t \in {<<"discounts", "update">>, <<"orders">>}, y \in Deliveries}

EnvNames == {"SHOPIFY_STORE", "SHOPIFY_TOKEN", "HUBSPOT_TOKEN", "SHOPIFY_WEBHOOK_SECRET"}
Envs == {EnvNames, EnvNames \ {"SHOPIFY_WEBHOOK_SECRET"}, EnvNames \ {"HUBSPOT_TOKEN"}}

\* the variables requireEnv insists on, per revision
RequiredEnv ==
  IF rev = "hmac" THEN {"SHOPIFY_STORE", "SHOPIFY_TOKEN", "HUBSPOT_TOKEN", "SHOPIFY_WEBHOOK_SECRET"}
  ELSE {"SHOPIFY_STORE", "SHOPIFY_TOKEN", "HUBSPOT_TOKEN"}

\* a bug: the guard on the header dropped, a request without signature passes
verifyNoHeaderGuard(env, headerHmac) ==
  /\ "SHOPIFY_WEBHOOK_SECRET" \in env
  /\ (headerHmac = "" \/ headerHmac = "digest")

\* verifyShopifyHmac: false without secret or header, else whether the
\* header equals the base64 digest of the body
verifyShopifyHmac(env, headerHmac) ==
  /\ "SHOPIFY_WEBHOOK_SECRET" \in env
  /\ headerHmac # ""
  /\ headerHmac = "digest"

(* ------------------------------ responses ----------------------------- *)

Call(sys, op, id, email, props) == [sys |-> sys, op |-> op, id |-> id, email |-> email, props |-> props]

Response(status, kind, error, topic, email, id, ids, loyalty, debug) ==
  [status |-> status, kind |-> kind, error |-> error, topic |-> topic, email |-> email,
   id |-> id, ids |-> ids, loyalty |-> loyalty, debug |-> debug]

Start ==
  [pc |-> "start", req |-> Request("", <<>>, EmptyBody, "", FALSE, FALSE), hmac |-> "none",
   email |-> <<>>, customerId |-> NoId, usedShopifyId |-> NoId, site |-> "", attempt |-> 0,
   meta |-> NoMeta, norm |-> None, ids |-> None, newId |-> NoId,
   pending |-> {}, settled |-> {}, failed |-> {},
   response |-> None, thrown |-> "", calls |-> <<>>,
   idByEmail |-> None, answers |-> <<>>, round |-> 1, first |-> None]

\* res.status(..).json(..) / .send(..), then return
Respond(s, resp) == [s EXCEPT !.pc = "done", !.response = Some(resp)]

ErrorResponse(status, error, topic) ==
  Response(status, "error", error, topic, <<>>, NoId, None, None, None)

\* an error thrown inside the handler: the plain revision's catch answers
\* 500 {error}; the hmac revision has no try/catch, the handler's promise
\* rejects and nothing is sent
Throw(s, message) ==
  IF rev = "plain"
  THEN Respond([s EXCEPT !.thrown = message], ErrorResponse(500, message, None))
  ELSE [s EXCEPT !.pc = "rejected", !.thrown = message]

Issue(s, pc, call) == [s EXCEPT !.pc = pc, !.calls = Append(@, call)]

\* history: how the source system answered the call the handler awaited
Answered(s, answer) == [s EXCEPT !.answers = Append(@, answer)]

\* a bug: the patch also carries (and blanks) the contact's email
PropertiesWithEmail(norm) ==
  [loyalty_enabled |-> JBool(norm.enabled), loyalty_points |-> JNum(norm.points),
   loyalty_referral_link |-> norm.referral, loyalty_tier |-> norm.vipTier, email |-> JStr(<<>>)]

\* the properties object sent in every patch
Properties(norm) ==
  IF rev = "hmac"
  THEN [loyalty_enabled |-> JBool(norm.enabled), loyalty_points |-> JNum(norm.points),
        loyalty_referral_link |-> norm.referral, loyalty_tier |-> norm.vipTier]
  ELSE [loyalty_enabled |-> JBool(norm.enabled), loyalty_points |-> JNum(norm.points),
        loyalty_referral_link |-> norm.referral]

\* ...(debug ? {debug: {usedCustomerId, metafield: meta.raw, parsed}} : {})
DebugView(s) ==
  IF s.req.debug
  THEN Some([usedCustomerId |-> s.usedShopifyId, metafield |-> s.meta.raw, parsed |-> s.meta.data])
  ELSE None

\* the success bodies: {ok, created|updated|duplicatesUpdated, email, topic, loyalty, debug?}
SuccessResponse(s, kind, id, ids) ==
  Response(200, kind, "", Some(s.req.topic), s.email, id, ids, s.norm, DebugView(s))

(* ------------------------- the handler, by stretch -------------------- *)

\* hsSearchContactIdsByEmail(email) is issued (after norm and properties are built)
StartReconcile(s) ==
  Issue([s EXCEPT !.norm = Some(normalizeLoyalty(s.meta.data))], "awaitSearch",
        Call("crm", "search", NoId, s.email, None))

\* getLoyaltyByCustomerId(id) is issued
FetchLoyalty(s, id, attempt) ==
  Issue([s EXCEPT !.usedShopifyId = id, !.attempt = attempt], "awaitLoyalty",
        Call("shop", "loyalty", id, <<>>, None))

\* a bug: the retry fetches with the webhook's id again
FallbackStaleId(s, idByEmail) ==
  IF idByEmail # NoId THEN FetchLoyalty(s, s.customerId, 2) ELSE StartReconcile(s)

\* if (idByEmail) { usedShopifyId = idByEmail; meta = await getLoyaltyByCustomerId(idByEmail) }
Fallback(s, idByEmail) ==
  IF idByEmail # NoId THEN FetchLoyalty(s, idByEmail, 2) ELSE StartReconcile(s)

\* a bug: rejected only when both are missing
MissingIdentityBoth(s) == s.email = <<>> /\ s.customerId = NoId

\* if (!email || !customerId)
MissingIdentity(s) == s.email = <<>> \/ s.customerId = NoId

\* a bug: the 400 is sent without `return`, the pipeline goes on
CheckIdentityNoReturn(s) ==
  IF MissingIdentity(s)
  THEN FetchLoyalty([s EXCEPT !.response =
                       Some(ErrorResponse(400, "Missing email or customerId after lookup", Some(s.req.topic)))],
                    s.customerId, 1)
  ELSE FetchLoyalty(s, s.customerId, 1)

\* the 400 exit, else the first loyalty fetch
CheckIdentity(s) ==
  IF MissingIdentity(s)
  THEN Respond(s, ErrorResponse(400, "Missing email or customerId after lookup", Some(s.req.topic)))
  ELSE FetchLoyalty(s, s.customerId, 1)

\* if (!email) { orderEmail = body.email.toLowerCase(); if (orderEmail) {...} }
\* (hmac revision only)
BackfillId(s) ==
  IF rev = "hmac" /\ s.email = <<>> /\ toLowerCase(s.req.body.email) # <<>>
  THEN LET t == [s EXCEPT !.email = toLowerCase(s.req.body.email)]
       IN  IF t.customerId = NoId
           THEN Issue([t EXCEPT !.site = "backfill"], "awaitIdByEmail",
                      Call("shop", "idByEmail", NoId, t.email, None))
           ELSE CheckIdentity(t)
  ELSE CheckIdentity(s)

\* if (customerId && !email) foundEmail = await getCustomerEmailById(customerId)
BackfillEmail(s) ==
  IF s.customerId # NoId /\ s.email = <<>>
  THEN Issue(s, "awaitEmailById", Call("shop", "emailById", s.customerId, <<>>, None))
  ELSE BackfillId(s)

\* a || b on strings
OrElse(a, b) == IF a # <<>> THEN a ELSE b

IsCustomerTopic(topic) == startsWith(topic, "customers")

\* a bug: the prefix test without the slash, topic.startsWith("orders")
IsOrderTopicNoSlash(topic) == Len(topic) >= 1 /\ topic[1] = "orders"

IsOrderTopic(topic) == startsWith(topic, "orders")

\* the email hint of an orders/* body
OrderEmail(body) ==
  IF rev = "hmac" THEN toLowerCase(OrElse(body.email, body.cemail)) ELSE toLowerCase(body.cemail)

\* classification and extraction of the identity hints
Classify(s) ==
  IF IsCustomerTopic(s.req.topic)
  THEN BackfillEmail([s EXCEPT !.email = toLowerCase(s.req.body.email), !.customerId = s.req.body.id])
  ELSE IF IsOrderTopic(s.req.topic)
  THEN BackfillEmail([s EXCEPT !.email = OrderEmail(s.req.body), !.customerId = s.req.body.cid])
  ELSE Respond(s, Response(200, "ignored", "", Some(s.req.topic), <<>>, NoId, None, None, None))

\* a bug: the testing bypass is not honoured
AuthenticateNoBypass(s, env) ==
  IF verifyShopifyHmac(env, s.req.sig) THEN Classify([s EXCEPT !.hmac = "pass"])
  ELSE Respond([s EXCEPT !.hmac = "fail"], ErrorResponse(401, "Invalid HMAC", None))

\* if (!skipHmac && !verifyShopifyHmac(rawBody, headerHmac)) return 401
Authenticate(s, env) ==
  IF s.req.skip THEN Classify([s EXCEPT !.hmac = "skipped"])
  ELSE IF verifyShopifyHmac(env, s.req.sig) THEN Classify([s EXCEPT !.hmac = "pass"])
  ELSE Respond([s EXCEPT !.hmac = "fail"], ErrorResponse(401, "Invalid HMAC", None))

\* the handler from its entry to its first await or its response
Enter(s, env) ==
  IF s.req.method # "POST"
  THEN Respond(s, Response(200, "liveness", "", None, <<>>, NoId, None, None, None))
  ELSE IF ~(RequiredEnv \subseteq env) THEN Throw(s, "Missing env var")
  ELSE IF rev = "hmac" THEN Authenticate(s, env)
  ELSE Classify(s)

\* a bug: only the newest match is written, whatever the policy
PatchTargetsNewest(ids) == <<ids[1]>>

\* the ids the reconciler writes to once the search has returned ids (not
\* empty): ids[0] alone for one match or under the newest-only policy, else all
PatchTargets(ids) ==
  IF Len(ids) = 1 \/ ~updateAll THEN <<ids[1]>> ELSE ids

\* if (ids.length === 1 || !UPDATE_ALL_DUPLICATES): the single awaited patch
SinglePatch(ids) == Len(ids) = 1 \/ ~updateAll

RECURSIVE IssuePatches(_, _)
\* ids.map((id) => hsPatchContact(id, properties)): one request per id, in order
IssuePatches(s, targets) ==
  IF targets = <<>> THEN s
  ELSE IssuePatches(
         [s EXCEPT !.calls = Append(@, Call("crm", "patch", Head(targets), <<>>, Some(Properties(s.norm[1])))),
                   !.pending = @ \cup {Head(targets)}],
         Tail(targets))

\* a bug: `ids.length <= 1` in place of `ids.length === 0`
ReconcileCreateOnOne(s, ids) ==
  LET t == [s EXCEPT !.ids = Some(ids)]
  IN  IF Len(ids) <= 1
      THEN Issue(t, "awaitCreate", Call("crm", "create", NoId, t.email, None))
      ELSE [IssuePatches(t, PatchTargets(ids)) EXCEPT !.pc = "awaitPatchAll"]

\* after the search has answered: create, patch one, or patch all
Reconcile(s, ids) ==
  LET t == [s EXCEPT !.ids = Some(ids)]
  IN  IF Len(ids) = 0
      THEN Issue(t, "awaitCreate", Call("crm", "create", NoId, t.email, None))
      ELSE IF SinglePatch(ids)
      THEN [IssuePatches(t, PatchTargets(ids)) EXCEPT !.pc = "awaitPatch"]
      ELSE [IssuePatches(t, PatchTargets(ids)) EXCEPT !.pc = "awaitPatchAll"]

\* duplicates: ids.length > 1 ? ids : undefined
Duplicates(ids) == IF Len(ids) > 1 THEN Some(ids) ELSE None

\* the response after the single awaited patch: {created} after a create,
\* {updated, duplicates} otherwise
AfterPatch(s) ==
  IF s.newId # NoId
  THEN Respond(s, SuccessResponse(s, "created", s.newId, None))
  ELSE Respond(s, SuccessResponse(s, "updated", s.ids[1][1], Duplicates(s.ids[1])))

\* a bug: Promise.allSettled in place of Promise.all, failures are dropped
JoinAllSettled(s, ok) ==
  IF s.pending = {} THEN Respond(s, SuccessResponse(s, "duplicatesUpdated", NoId, s.ids))
  ELSE s

\* await Promise.all(...) as one of its patches settles: it rejects on the
\* first failure, and fulfils when the last patch has succeeded
JoinAll(s, ok) ==
  IF ~ok THEN Throw(s, "HubSpot patch failed")
  ELSE IF s.pending = {} THEN Respond(s, SuccessResponse(s, "duplicatesUpdated", NoId, s.ids))
  ELSE s

\* a bug: the email re-resolution repeated for as long as the fetch says 404
AfterLoyaltyRetryAgain(s) ==
  IF s.meta.notFound
  THEN Issue([s EXCEPT !.site = "fallback"], "awaitIdByEmail",
             Call("shop", "idByEmail", NoId, s.email, None))
  ELSE StartReconcile(s)

\* a bug: a 404 on the retried fetch treated as a failed fetch
AfterLoyaltyThrowOnSecond(s) ==
  IF s.meta.notFound /\ s.attempt = 1
  THEN Issue([s EXCEPT !.site = "fallback"], "awaitIdByEmail",
             Call("shop", "idByEmail", NoId, s.email, None))
  ELSE IF s.meta.notFound THEN Throw(s, "Shopify metafield fetch failed")
  ELSE StartReconcile(s)

\* after getLoyaltyByCustomerId has answered: one more try through the
\* email search when the first fetch said 404, else on to the CRM
AfterLoyalty(s) ==
  IF s.meta.notFound /\ s.attempt = 1
  THEN Issue([s EXCEPT !.site = "fallback"], "awaitIdByEmail",
             Call("shop", "idByEmail", NoId, s.email, None))
  ELSE StartReconcile(s)

(* -------------------------------- actions ----------------------------- *)

Init ==
  /\ rev \in {"hmac", "plain"}
  /\ updateAll \in BOOLEAN
  /\ shop \in ShopStates
  /\ crm \in CrmStates
  /\ clock = Cardinality(DOMAIN crm \ {201}) + 2
  /\ h = [r \in Reqs |-> Start]

\* a request arrives: module.exports up to the first await on a collaborator
Receive(r) ==
  /\ h[r].pc = "start"
  /\ \E q \in Requests, env \in Envs :
       /\ rev = "plain" => (q.sig = "" /\ ~q.skip)
       /\ h' = [h EXCEPT ![r] = Enter([h[r] EXCEPT !.req = q], env)]
  /\ UNCHANGED <<rev, updateAll, shop, crm, clock>>

\* getCustomerEmailById answers
EmailByIdReturn(r) ==
  /\ h[r].pc = "awaitEmailById"
  /\ \E o \in Outcomes :
       LET s == Answered(h[r], IF o = "ok" /\ ~ShopCustomerById(h[r].customerId).ok
                               THEN "notfound" ELSE o)
           foundEmail == getCustomerEmailById(s.customerId, o)
       IN  h' = [h EXCEPT ![r] =
                   IF o = "netfail" THEN Throw(s, "fetch failed")
                   ELSE BackfillId(IF foundEmail # <<>> THEN [s EXCEPT !.email = foundEmail] ELSE s)]
  /\ UNCHANGED <<rev, updateAll, shop, crm, clock>>

\* getCustomerIdByEmail answers, at either call site
IdByEmailReturn(r) ==
  /\ h[r].pc = "awaitIdByEmail"
  /\ \E o \in Outcomes :
       LET s == Answered(h[r], o)
           id == getCustomerIdByEmail(s.email, o)
       IN  h' = [h EXCEPT ![r] =
                   IF o = "netfail" THEN Throw(s, "fetch failed")
                   ELSE IF s.site = "backfill" THEN CheckIdentity([s EXCEPT !.customerId = id])
                   ELSE Fallback([s EXCEPT !.idByEmail = Some(id)], id)]
  /\ UNCHANGED <<rev, updateAll, shop, crm, clock>>

\* getLoyaltyByCustomerId answers (first fetch or the retry)
LoyaltyReturn(r) ==
  /\ h[r].pc = "awaitLoyalty"
  /\ \E o \in LoyaltyOutcomes :
       LET meta == IF o = "notfound" THEN Meta(TRUE, EmptyRaw, None)
                   ELSE getLoyaltyByCustomerId(h[r].usedShopifyId)
           s == Answered(h[r], IF o = "ok" /\ meta.notFound THEN "notfound" ELSE o)
       IN  h' = [h EXCEPT ![r] =
                   IF o = "netfail" THEN Throw(s, "fetch failed")
                   ELSE IF o = "error" THEN Throw(s, "Shopify metafield fetch failed")
                   ELSE AfterLoyalty([s EXCEPT !.meta = meta])]
  /\ UNCHANGED <<rev, updateAll, shop, crm, clock>>

\* hsSearchContactIdsByEmail answers
SearchReturn(r) ==
  /\ h[r].pc = "awaitSearch"
  /\ \E o \in Outcomes :
       LET s == h[r]
       IN  h' = [h EXCEPT ![r] =
                   IF o = "netfail" THEN Throw(s, "fetch failed")
                   ELSE IF o = "error" THEN Throw(s, "HubSpot search failed")
                   ELSE Reconcile(s, hsSearchContactIdsByEmail(s.email))]
  /\ UNCHANGED <<rev, updateAll, shop, crm, clock>>

\* hsCreateContact answers; the patch of the new contact is issued
CreateReturn(r) ==
  /\ h[r].pc = "awaitCreate"
  /\ \E o \in Outcomes :
       LET s == h[r]
       IN  IF o = "ok"
           THEN /\ crm' = CrmAfterCreate(s.email)
                /\ clock' = clock + 1
                /\ h' = [h EXCEPT ![r] =
                           [IssuePatches([s EXCEPT !.newId = NewContactId], <<NewContactId>>)
                              EXCEPT !.pc = "awaitPatch"]]
           ELSE /\ h' = [h EXCEPT ![r] =
                           Throw(s, IF o = "error" THEN "HubSpot create failed" ELSE "fetch failed")]
                /\ UNCHANGED <<crm, clock>>
  /\ UNCHANGED <<rev, updateAll, shop>>

\* the single awaited hsPatchContact answers
PatchReturn(r) ==
  /\ h[r].pc = "awaitPatch"
  /\ \E id \in h[r].pending, o \in Outcomes :
       LET s == [h[r] EXCEPT !.pending = @ \ {id},
                             !.settled = IF o = "ok" THEN @ \cup {id} ELSE @,
                             !.failed = IF o = "ok" THEN @ ELSE @ \cup {id}]
       IN  /\ crm' = IF o = "ok" THEN CrmAfterPatch(id, Properties(s.norm[1])) ELSE crm
           /\ h' = [h EXCEPT ![r] =
                      IF o = "ok" THEN AfterPatch(s)
                      ELSE Throw(s, IF o = "error" THEN "HubSpot patch failed" ELSE "fetch failed")]
  /\ UNCHANGED <<rev, updateAll, shop, clock>>

\* one of the concurrently issued patches answers; the handler, if it still
\* waits on Promise.all, reacts in the same turn
PatchAllReturn(r) ==
  /\ h[r].pc \in {"awaitPatchAll", "done", "rejected"}
  /\ \E id \in h[r].pending, o \in Outcomes :
       LET s == [h[r] EXCEPT !.pending = @ \ {id},
                             !.settled = IF o = "ok" THEN @ \cup {id} ELSE @,
                             !.failed = IF o = "ok" THEN @ ELSE @ \cup {id}]
       IN  /\ crm' = IF o = "ok" THEN CrmAfterPatch(id, Properties(s.norm[1])) ELSE crm
           /\ h' = [h EXCEPT ![r] = IF h[r].pc = "awaitPatchAll" THEN JoinAll(s, o = "ok") ELSE s]
  /\ UNCHANGED <<rev, updateAll, shop, clock>>

Next ==
  \E r \in Reqs :
    \/ Receive(r)
    \/ EmailByIdReturn(r)
    \/ IdByEmailReturn(r)
    \/ LoyaltyReturn(r)
    \/ SearchReturn(r)
    \/ CreateReturn(r)
    \/ PatchReturn(r)
    \/ PatchAllReturn(r)

Spec == Init /\ [][Next]_vars

(* ------------------- the same webhook delivered twice ----------------- *)

\* the deliveries that are dispatched: a signed POST of one of the two topic
\* families, with the configuration complete
SeqRequests ==
  {q \in Requests : /\ q.method = "POST" /\ ~q.skip /\ ~q.debug
                    /\ q.sig = (IF rev = "hmac" THEN "digest" ELSE "")
                    /\ q.topic \in {<<"customers", "update">>, <<"orders", "paid">>}}

\* what is kept of the first invocation for the comparison with the second
Outcome(s) ==
  [email |-> s.email, norm |-> s.norm, newId |-> s.newId, answers |-> s.answers,
   response |-> s.response,
   contacts |-> Cardinality({c \in DOMAIN crm : crm[c].email = s.email})]

\* the webhook arrives
Deliver(r) ==
  /\ h[r].pc = "start"
  /\ \E q \in SeqRequests : h' = [h EXCEPT ![r] = Enter([h[r] EXCEPT !.req = q], EnvNames)]
  /\ UNCHANGED <<rev, updateAll, shop, crm, clock>>

\* the same webhook arrives again, after the first invocation has ended and
\* the requests it issued have settled (the deliveries followed up are those
\* whose first invocation got as far as a profile)
Redeliver(r) ==
  /\ h[r].pc \in {"done", "rejected"} /\ h[r].pending = {} /\ h[r].round = 1
  /\ h[r].norm # None
  /\ h' = [h EXCEPT ![r] =
              Enter([Start EXCEPT !.req = h[r].req, !.round = 2, !.first = Some(Outcome(h[r]))],
                    EnvNames)]
  /\ UNCHANGED <<rev, updateAll, shop, crm, clock>>

NextSeq ==
  \E r \in Reqs :
    \/ Deliver(r)
    \/ Redeliver(r)
    \/ EmailByIdReturn(r)
    \/ IdByEmailReturn(r)
    \/ LoyaltyReturn(r)
    \/ SearchReturn(r)
    \/ CreateReturn(r)
    \/ PatchReturn(r)
    \/ PatchAllReturn(r)

\* the deployed (hmac) revision; each customer absent or with its record; no
\* contact under the email "a" or MaxDup of them
InitSeq ==
  /\ rev = "hmac"
  /\ updateAll \in BOOLEAN
  /\ shop \in {s \in ShopStates : \A i \in CustIds : s[i].exists => (s[i].mf # None /\ s[i].mf[1].parses)}
  /\ \E k \in {0, MaxDup}, b \in BOOLEAN : crm = CrmState(k, b) /\ clock = k + 2
  /\ h = [r \in Reqs |-> Start]

SpecSeq == InitSeq /\ [][NextSeq]_vars

(* ------------------ the normalizer over its input space --------------- *)

\* the object JSON.parse gives for the keys a choice leaves defined
RawOf(f) == [k \in {x \in DOMAIN f : f[x].t # "undefined"} |-> f[k]]

\* a number that tells the points keys apart
KeyMark(k) ==
  CASE k = "availablePoints" -> 10 [] k = "pointBalance" -> 20 [] k = "pointsBalance" -> 30
    [] k = "balance" -> 40 [] k = "points" -> 50 [] k = "point_balance" -> 60

\* each points key absent, null, or a number of its own
RawsByKey ==
  {RawOf([k \in {"availablePoints", "pointBalance", "pointsBalance", "balance", "points",
                 "point_balance"} |->
            IF c[k] = "number" THEN JNum(KeyMark(k)) ELSE IF c[k] = "null" THEN JNull ELSE Undefined]) :
     c \in [{"availablePoints", "pointBalance", "pointsBalance", "balance", "points",
             "point_balance"} -> {"absent", "null", "number"}]}

\* values a points field may hold: numbers, numerals with separators, signs
\* and blanks, text, a number out of range (JSON 1e999), null
PointValues ==
  {JNum(5), JStr(<<"1", ",", "2", "3", "4">>), JStr(<<" ", "7", " ">>), JStr(<<"-", "3">>),
   JStr(<<"a", "b", "c">>), JStr(<<>>), JNaN, JNull}

\* the legacy key and the two operands of the derived balance, over those values
RawsByValue ==
  {RawOf(f) : f \in [{"points", "creditedPoints", "spentAmount"} -> PointValues \cup {Undefined}]}

\* values an enabled flag may hold
EnabledValues ==
  {JBool(TRUE), JBool(FALSE), JStr(<<"t", "r", "u", "e">>), JStr(<<"f", "a", "l", "s", "e">>),
   JStr(<<"T", "R", "U", "E">>), JStr(<<"1">>), JStr(<<"y", "e", "s">>), JStr(<<>>),
   JNum(1), JNum(0), JNum(2), JNull}

\* the flag, the status and one points key, each there or not
RawsByFlag ==
  {RawOf([enabled |-> e, customerStatus |-> s, availablePoints |-> a]) :
     e \in EnabledValues \cup {Undefined},
     s \in {Undefined, JStr(<<"A", "C", "T", "I", "V", "E">>), JStr(<<"X">>)},
     a \in {Undefined, JNum(5)}}

RawInputs == RawsByKey \cup RawsByValue \cup RawsByFlag

\* the webhook of customer 1, signed
NormRequest ==
  Request("POST", <<"customers", "update">>, Body(<<"a">>, 1, <<>>, NoId), "digest", FALSE, FALSE)

\* customer 1 holds one of the raw records, the CRM has no contact yet
InitNorm ==
  /\ rev = "hmac"
  /\ updateAll = TRUE
  /\ \E raw \in RawInputs :
       shop = [i \in CustIds |->
                 IF i = 1 THEN Customer(TRUE, <<"a">>, Some(Metafield("json", TRUE, raw)))
                 ELSE NoCustomer]
  /\ crm = CrmState(0, FALSE)
  /\ clock = 2
  /\ h = [r \in Reqs |-> Start]

\* the webhook arrives
Submit(r) ==
  /\ h[r].pc = "start"
  /\ h' = [h EXCEPT ![r] = Enter([h[r] EXCEPT !.req = NormRequest], EnvNames)]
  /\ UNCHANGED <<rev, updateAll, shop, crm, clock>>

NextNorm ==
  \E r \in Reqs :
    \/ Submit(r)
    \/ IdByEmailReturn(r)
    \/ LoyaltyReturn(r)
    \/ SearchReturn(r)
    \/ CreateReturn(r)
    \/ PatchReturn(r)

SpecNorm == InitNorm /\ [][NextNorm]_vars

(* ------------------- two webhooks handled at once -------------------- *)

\* two invocations of the handler in flight together
PairReqs == {1, 2}

\* signed customers/update webhooks of customer 1: with the email in either
\* case, or with the id alone
PairRequests ==
  {Request("POST", <<"customers", "update">>, Body(e, 1, <<>>, NoId), "digest", FALSE, FALSE) :
     e \in {<<"a">>, <<"A">>, <<>>}}

\* customer 1 has a record; the CRM has no contact under "a", or MaxDup of them
InitPair ==
  /\ rev = "hmac"
  /\ updateAll = TRUE
  /\ shop = [i \in CustIds |->
               IF i = 1 THEN Customer(TRUE, <<"a">>, Some(MF1)) ELSE NoCustomer]
  /\ \E k \in {0, MaxDup} : crm = CrmState(k, FALSE) /\ clock = k + 2
  /\ h = [r \in PairReqs |-> Start]

\* a webhook arrives at one of the two invocations
Arrive(r) ==
  /\ h[r].pc = "start"
  /\ \E q \in PairRequests : h' = [h EXCEPT ![r] = Enter([h[r] EXCEPT !.req = q], EnvNames)]
  /\ UNCHANGED <<rev, updateAll, shop, crm, clock>>

\* the steps of the two invocations interleave at their awaits
NextPair ==
  \E r \in PairReqs :
    \/ Arrive(r)
    \/ EmailByIdReturn(r)
    \/ IdByEmailReturn(r)
    \/ LoyaltyReturn(r)
    \/ SearchReturn(r)
    \/ CreateReturn(r)
    \/ PatchReturn(r)
    \/ PatchAllReturn(r)

SpecPair == InitPair /\ [][NextPair]_vars

(* ------------------------------- claims ------------------------------- *)

Entered(r) == h[r].pc # "start"
IsPost(r) == h[r].req.method = "POST"
Ended(r) == h[r].pc \in {"done", "rejected"}

\* the request carries the body's digest, or the bypass flag
Authentic(r) == h[r].req.skip \/ h[r].req.sig = "digest"

\* requireEnv found the configuration complete
Configured(r) == h[r].thrown # "Missing env var"

\* a POST that got past requireEnv and, where the revision has one, past
\* (or around) the authenticity check
PastChecks(r) ==
  Entered(r) /\ IsPost(r) /\ Configured(r) /\ (rev = "hmac" => Authentic(r))

\* the topic is in neither the customers/ nor the orders/ family
ForeignTopic(r) ==
  ~startsWith(h[r].req.topic, "customers") /\ ~startsWith(h[r].req.topic, "orders")

Status(r) == h[r].response[1].status
Responded(r) == h[r].response # None

CallsTo(r, sys) == SelectSeq(h[r].calls, LAMBDA c : c.sys = sys)
CrmWrites(r) == SelectSeq(h[r].calls, LAMBDA c : c.sys = "crm" /\ c.op \in {"create", "patch"})

\* C1: a POST that passed or bypassed the authenticity check and whose topic
\* is in neither family is answered 200 {ignored: true, topic}, and the
\* request issues no call to the source system and none to the CRM.
C1_IgnoredTopic ==
  \A r \in Reqs :
    (PastChecks(r) /\ ForeignTopic(r)) =>
      /\ h[r].pc = "done"
      /\ h[r].response =
           Some(Response(200, "ignored", "", Some(h[r].req.topic), <<>>, NoId, None, None, None))
      /\ h[r].calls = <<>>

C1_Witness ==
  \E r \in Reqs :
    /\ rev = "hmac" /\ h[r].hmac = "pass"
    /\ h[r].req.topic = <<"discounts", "update">>
    /\ Responded(r) /\ h[r].response[1].kind = "ignored"

\* C2: in the revision with HMAC verification, a POST without the bypass flag
\* whose signature header is missing or is not the body's digest is answered
\* 401 {error} and issues no source-system or CRM call; and a CRM write is
\* issued only by a request whose verification succeeded or that was bypassed.
C2_Unauthorized ==
  \A r \in Reqs :
    rev = "hmac" =>
      /\ (Entered(r) /\ IsPost(r) /\ Configured(r) /\ ~h[r].req.skip /\ h[r].req.sig # "digest") =>
           /\ h[r].pc = "done"
           /\ h[r].response = Some(ErrorResponse(401, "Invalid HMAC", None))
           /\ h[r].calls = <<>>
      /\ CrmWrites(r) # <<>> => Authentic(r)

C2_Witness ==
  \E r \in Reqs :
    /\ rev = "hmac" /\ IsPost(r) /\ ~h[r].req.skip /\ h[r].req.sig = ""
    /\ startsWith(h[r].req.topic, "customers") /\ h[r].req.body.id # NoId
    /\ Responded(r) /\ Status(r) = 401

\* C3: for a customers/* event whose payload has neither email nor id no CRM
\* call (search, create, patch) is ever issued, and once the event is past
\* the checks that precede classification it is answered 400 {error, topic}.
C3_MissingIdentity ==
  \A r \in Reqs :
    (/\ Entered(r) /\ IsPost(r)
     /\ startsWith(h[r].req.topic, "customers")
     /\ h[r].req.body.email = <<>>
     /\ h[r].req.body.id = NoId) =>
      /\ CallsTo(r, "crm") = <<>>
      /\ PastChecks(r) =>
           /\ h[r].pc = "done"
           /\ h[r].response =
                Some(ErrorResponse(400, "Missing email or customerId after lookup", Some(h[r].req.topic)))

C3_Witness ==
  \E r \in Reqs :
    /\ startsWith(h[r].req.topic, "customers")
    /\ h[r].req.body.email = <<>> /\ h[r].req.body.id = NoId
    /\ Responded(r) /\ Status(r) = 400 /\ h[r].calls = <<>>

\* C4: every request that ends has received a response whose status is one
\* of 200, 400, 401, 500; in particular a request in which a collaborator
\* call (loyalty fetch, CRM search, create, patch) failed ends with a 500
\* response, never with no response sent.  (Stated for requests that found
\* their configuration complete.)
C4_AlwaysResponds ==
  \A r \in Reqs :
    (Ended(r) /\ Configured(r)) =>
      /\ Responded(r)
      /\ Status(r) \in {200, 400, 401, 500}
      /\ h[r].thrown # "" => Status(r) = 500

\* C5 as stated: every POST whose topic is in neither family is answered 200,
\* never 401, 400 or 500, whatever its signature header, body or flags.
C5_ForeignTopicNeverError ==
  \A r \in Reqs :
    (Entered(r) /\ IsPost(r) /\ Configured(r) /\ ForeignTopic(r)) =>
      (Responded(r) /\ Status(r) = 200)

\* C5 amended: a POST whose topic is in neither family is answered 200 when
\* it passes or bypasses the authenticity check, whatever its body or flags;
\* when it fails the check it is answered 401, as any other topic is; it is
\* never answered 400.
C5_ForeignTopicAfterAuth ==
  \A r \in Reqs :
    (Entered(r) /\ IsPost(r) /\ Configured(r) /\ ForeignTopic(r)) =>
      /\ Responded(r)
      /\ IF rev = "hmac" /\ ~Authentic(r) THEN Status(r) = 401 ELSE Status(r) = 200

C5_Witness ==
  \E r \in Reqs :
    /\ rev = "hmac" /\ h[r].req.topic = <<"orders">>
    /\ h[r].req.skip /\ h[r].req.sig = "other" /\ h[r].req.debug
    /\ Responded(r) /\ Status(r) = 200

Success(r) == Responded(r) /\ h[r].response[1].kind \in {"created", "updated", "duplicatesUpdated"}

\* the search of request r has returned n ids
Found(r, n) == h[r].ids # None /\ Len(h[r].ids[1]) = n
FoundMany(r) == h[r].ids # None /\ Len(h[r].ids[1]) >= 2

PatchCall(r, id) == Call("crm", "patch", id, <<>>, Some(Properties(h[r].norm[1])))
CreateCall(r) == Call("crm", "create", NoId, h[r].email, None)

\* C6: on the update-all path (the search returned two or more ids), once
\* one of the concurrently issued patches has failed the request has no
\* success response, in whatever order the patches settle and however many
\* of them succeed.
C6_AnyFailureFailsAll ==
  \A r \in Reqs :
    (updateAll /\ FoundMany(r) /\ h[r].failed # {}) => ~Success(r)

C6_Witness ==
  \E r \in Reqs :
    /\ updateAll /\ Found(r, 3)
    /\ Cardinality(h[r].failed) = 1 /\ Cardinality(h[r].settled) = 2 /\ h[r].pending = {}
    /\ Ended(r)

\* C7: under update-all, when the search returned n >= 2 ids, the CRM writes
\* of the request are exactly one patch per returned id, in order, each with
\* the request's property set, and no create; the returned ids are the
\* contacts holding the email; a success response is {duplicatesUpdated: ids}.
C7_UpdateAll ==
  \A r \in Reqs :
    (updateAll /\ FoundMany(r)) =>
      LET ids == h[r].ids[1]
      IN  /\ CrmWrites(r) = [i \in 1..Len(ids) |-> PatchCall(r, ids[i])]
          /\ {ids[i] : i \in 1..Len(ids)} = {c \in DOMAIN crm : crm[c].email = h[r].email}
          /\ Success(r) =>
               /\ h[r].response[1].kind = "duplicatesUpdated"
               /\ h[r].response[1].ids = Some(ids)
               /\ \A i \in 1..Len(ids) : crm[ids[i]].props["loyalty_points"] = Some(JNum(h[r].norm[1].points))

C7_Witness ==
  \E r \in Reqs :
    /\ updateAll /\ Found(r, 3) /\ Success(r)
    /\ h[r].response[1].ids = Some(<<102, 101, 103>>)

\* C8: under update-newest-only, when the search returned n >= 2 ids, the
\* request issues exactly one patch, to the first id, and the response's
\* duplicates lists the other n-1 ids and not the id that was updated.
C8_NewestOnlyReportsRest ==
  \A r \in Reqs :
    (~updateAll /\ FoundMany(r)) =>
      LET ids == h[r].ids[1]
      IN  /\ CrmWrites(r) = <<PatchCall(r, ids[1])>>
          /\ Success(r) =>
               /\ h[r].response[1].kind = "updated"
               /\ h[r].response[1].id = ids[1]
               /\ h[r].response[1].ids = Some(Tail(ids))

Created == {c \in DOMAIN crm : c >= 300}

\* C9: a create is issued exactly when the search returned no id; then one
\* contact is created, with the resolved email, the patch is issued only once
\* the create has completed and targets the id the create returned, and a
\* success response tags that id as created.  When the search returned one
\* id, the only write is one patch to it and success tags it as updated.
C9_CreateIffNoMatch ==
  \A r \in Reqs :
    /\ (\E i \in 1..Len(h[r].calls) : h[r].calls[i].op = "create") <=> Found(r, 0)
    /\ Created = IF h[r].newId # NoId THEN {h[r].newId} ELSE {}
    /\ Found(r, 0) =>
         /\ CrmWrites(r) = IF h[r].newId = NoId THEN <<CreateCall(r)>>
                           ELSE <<CreateCall(r), PatchCall(r, h[r].newId)>>
         /\ h[r].newId # NoId => crm[h[r].newId].email = h[r].email
         /\ Success(r) => (h[r].response[1].kind = "created" /\ h[r].response[1].id = h[r].newId)
    /\ Found(r, 1) =>
         /\ CrmWrites(r) = <<PatchCall(r, h[r].ids[1][1])>>
         /\ Success(r) => (h[r].response[1].kind = "updated" /\ h[r].response[1].id = h[r].ids[1][1])

C9_Witness ==
  \E r \in Reqs :
    /\ Found(r, 0) /\ Success(r) /\ h[r].email = <<"b">>
    /\ h[r].response[1].id \in Created
    /\ crm[h[r].response[1].id].props["loyalty_enabled"] # None

ShopHasRecord(id) ==
  id \in DOMAIN shop /\ shop[id].exists /\ shop[id].mf # None /\ shop[id].mf[1].parses

\* the answers to the awaited calls of one operation, in call order (the
\* source-system calls are awaited one at a time, so call i has answer i)
AnswersTo(r, op) ==
  LET n == IF Len(h[r].answers) < Len(h[r].calls) THEN Len(h[r].answers) ELSE Len(h[r].calls)
      answered == SelectSeq([i \in 1..n |-> <<h[r].calls[i].op, h[r].answers[i]>>],
                            LAMBDA p : p[1] = op)
  IN  [i \in 1..Len(answered) |-> answered[i][2]]

CallsOf(r, op) == SelectSeq(h[r].calls, LAMBDA c : c.op = op)

\* C10: when the fetch for the webhook's id reported not-found and the email
\* search returned an id (so the fetch was retried), the retry is for the
\* customer the source system holds under the email; if that is another
\* customer, it has a loyalty record and the retry was answered with it,
\* every patch carries the normalization of that record, the response's
\* loyalty is that normalization, and with the debug flag
\* debug.usedCustomerId is the re-resolved id, not the webhook's.
C10_FallbackRecord ==
  \A r \in Reqs :
    h[r].attempt = 2 =>
      LET id2 == getCustomerIdByEmail(h[r].email, "ok")
      IN  /\ id2 # NoId
          /\ AnswersTo(r, "loyalty")[1] = "notfound"
          /\ h[r].usedShopifyId = id2
          /\ (id2 # h[r].customerId /\ ShopHasRecord(id2)
                /\ AnswersTo(r, "loyalty") = <<"notfound", "ok">>) =>
               LET norm2 == normalizeLoyalty(shop[id2].mf[1].data)
               IN  /\ \A i \in 1..Len(h[r].calls) :
                        h[r].calls[i].op = "patch" => h[r].calls[i].props = Some(Properties(norm2))
                   /\ Success(r) =>
                        /\ h[r].response[1].loyalty = Some(norm2)
                        /\ h[r].req.debug =>
                             h[r].response[1].debug[1].usedCustomerId = id2

C10_Witness ==
  \E r \in Reqs :
    /\ h[r].attempt = 2 /\ h[r].customerId = 1 /\ Success(r) /\ h[r].req.debug
    /\ h[r].response[1].debug[1].usedCustomerId = 2
    /\ h[r].response[1].loyalty[1].points = 1234
    /\ ~h[r].response[1].loyalty[1].enabled

\* C11: within one request the loyalty fetch is issued at most twice and the
\* email search of the fetcher at most once; a second fetch is issued only
\* after the first was answered not-found and the search returned an id, and
\* it is for that id; when the second fetch too is answered not-found the
\* handler neither searches nor fetches again but goes on to the CRM.
C11_BoundedRetry ==
  \A r \in Reqs :
    LET fetches == CallsOf(r, "loyalty")
        searches == CallsOf(r, "idByEmail")
        answers == AnswersTo(r, "loyalty")
        n == Len(h[r].calls)
    IN  /\ Len(fetches) <= 2
        /\ Len(searches) <= 1
        /\ Len(fetches) = 2 =>
              /\ answers # <<>> /\ answers[1] = "notfound"
              /\ Len(searches) = 1
              /\ h[r].idByEmail = Some(fetches[2].id) /\ fetches[2].id # NoId
              /\ \E i \in 1..(n - 2) :
                    /\ h[r].calls[i].op = "loyalty"
                    /\ h[r].calls[i + 1].op = "idByEmail"
                    /\ h[r].calls[i + 2].op = "loyalty"
        /\ answers = <<"notfound", "notfound">> =>
              /\ h[r].pc \notin {"awaitLoyalty", "awaitIdByEmail"}
              /\ CallsTo(r, "crm") # <<>>

\* both fetches answered not-found, and the request went on to succeed
C11_Witness ==
  \E r \in Reqs :
    /\ AnswersTo(r, "loyalty") = <<"notfound", "notfound">>
    /\ Len(CallsOf(r, "idByEmail")) = 1
    /\ Success(r)

\* the profile of a customer without loyalty data
DefaultProfile ==
  [enabled |-> FALSE, points |-> 0, referral |-> JStr(<<>>), vipTier |-> JStr(<<>>)]

\* the last fetch was answered not-found and there is no further one: the
\* search found no id, or that fetch was the retry
NotFoundFinal(r) ==
  LET answers == AnswersTo(r, "loyalty")
  IN  /\ answers # <<>> /\ answers[Len(answers)] = "notfound"
      /\ Len(answers) = 2 \/ h[r].idByEmail = Some(NoId)

\* C12: when the loyalty fetch is answered not-found and the email search
\* finds no id, or the retried fetch is answered not-found too, the request
\* does not fail over it: the profile is the all-default one (not enabled, 0
\* points, empty referral link, empty VIP tier), the CRM search is issued,
\* every patch carries the default values, and unless a CRM call fails the
\* request ends with a success response that reports the default profile.
C12_NotFoundDefaults ==
  \A r \in Reqs :
    NotFoundFinal(r) =>
      /\ h[r].norm = Some(DefaultProfile)
      /\ CallsOf(r, "search") # <<>>
      /\ \A i \in 1..Len(h[r].calls) :
            h[r].calls[i].op = "patch" =>
              /\ h[r].calls[i].props[1].loyalty_enabled = JBool(FALSE)
              /\ h[r].calls[i].props[1].loyalty_points = JNum(0)
              /\ h[r].calls[i].props[1].loyalty_referral_link = JStr(<<>>)
              /\ rev = "hmac" => h[r].calls[i].props[1].loyalty_tier = JStr(<<>>)
      /\ h[r].thrown # "Shopify metafield fetch failed"
      /\ (Ended(r) /\ h[r].thrown = "") =>
            Success(r) /\ h[r].response[1].loyalty = Some(DefaultProfile)

\* not-found, no id under the email, and the request succeeded with defaults
C12_Witness ==
  \E r \in Reqs :
    /\ AnswersTo(r, "loyalty") = <<"notfound">>
    /\ AnswersTo(r, "idByEmail") = <<"ok">>
    /\ h[r].idByEmail = Some(NoId)
    /\ Success(r)
    /\ h[r].response[1].loyalty = Some(DefaultProfile)
    /\ \E c \in DOMAIN crm : crm[c].props.loyalty_points = Some(JNum(0))

\* C13: when the same payload is delivered again after the first invocation,
\* with the source system unchanged and answering as it did the first time,
\* the second invocation computes the same normalized profile; and if the
\* first one created a contact, the second one's search returns exactly that
\* contact, it issues no create, its success response tags that id as
\* updated, and the number of contacts with the email stays what it was.
C13_Idempotent ==
  \A r \in Reqs :
    (h[r].round = 2 /\ h[r].first # None) =>
      LET f == h[r].first[1]
      IN  /\ (f.norm # None /\ h[r].norm # None /\ h[r].answers = f.answers) =>
                h[r].norm = f.norm
          /\ f.newId # NoId =>
                /\ f.contacts = 1
                /\ Cardinality({c \in DOMAIN crm : crm[c].email = f.email}) = f.contacts
                /\ h[r].email \in {<<>>, f.email}
                /\ h[r].ids # None => h[r].ids[1] = <<f.newId>>
                /\ CallsOf(r, "create") = <<>>
                /\ \A i \in 1..Len(h[r].calls) :
                      h[r].calls[i].op = "patch" => h[r].calls[i].id = f.newId
                /\ Success(r) =>
                      h[r].response[1].kind = "updated" /\ h[r].response[1].id = f.newId

\* the first invocation created the contact and succeeded, the second one
\* updated it with the same profile
C13_Witness ==
  \E r \in Reqs :
    /\ h[r].round = 2 /\ h[r].first # None
    /\ h[r].first[1].newId # NoId
    /\ h[r].first[1].response # None /\ h[r].first[1].response[1].kind = "created"
    /\ Success(r) /\ h[r].response[1].id = h[r].first[1].newId
    /\ h[r].norm = h[r].first[1].norm /\ h[r].norm[1].points = 120
    /\ crm[h[r].first[1].newId].props.loyalty_points = Some(JNum(120))

\* the customer id the payload carries: body.id for customers/*,
\* body.customer.id for orders/*
PayloadId(r) ==
  IF startsWith(h[r].req.topic, "customers") THEN h[r].req.body.id ELSE h[r].req.body.cid

HandledTopic(r) == startsWith(h[r].req.topic, "customers") \/ startsWith(h[r].req.topic, "orders")

\* C14: a request of a handled topic whose payload gives an email but no
\* customer id, while the source system has a customer under that email, is
\* resolved through the email search: the search is issued, and the request
\* is not rejected as missing identity but goes on to the loyalty fetch.
C14_AdoptsIdFoundByEmail ==
  \A r \in Reqs :
    (/\ PastChecks(r) /\ HandledTopic(r)
     /\ h[r].email # <<>> /\ PayloadId(r) = NoId
     /\ ShopSearchByEmail(h[r].email) # {}) =>
      /\ CallsOf(r, "idByEmail") # <<>>
      /\ Responded(r) => Status(r) # 400
      /\ Ended(r) => CallsOf(r, "loyalty") # <<>> \/ h[r].thrown # ""

\* C15 as claimed, for the requests whose payload carries a customer id: a
\* request answered 400 has neither an email nor a customer id after the
\* lookups, so one whose id is known is never rejected as missing identity.
C15_RejectsOnlyWhenBothUnset ==
  \A r \in Reqs :
    (PastChecks(r) /\ HandledTopic(r) /\ PayloadId(r) # NoId
       /\ Responded(r) /\ Status(r) = 400) =>
      h[r].email = <<>> /\ h[r].customerId = NoId

\* C15, amended: a request of a handled topic is rejected as missing identity
\* (400) exactly when the email or the customer id is unset after the
\* lookups; the loyalty fetch is issued only with both known, and a request
\* that ends with one of them unset was answered 400 unless a lookup failed
\* at the transport level.
C15_RejectsWhenEitherUnset ==
  \A r \in Reqs :
    (PastChecks(r) /\ HandledTopic(r)) =>
      /\ (Responded(r) /\ Status(r) = 400) =>
            /\ h[r].email = <<>> \/ h[r].customerId = NoId
            /\ CallsOf(r, "loyalty") = <<>> /\ CallsTo(r, "crm") = <<>>
      /\ CallsOf(r, "loyalty") # <<>> => h[r].email # <<>> /\ h[r].customerId # NoId
      /\ (Ended(r) /\ (h[r].email = <<>> \/ h[r].customerId = NoId)) =>
            \/ Responded(r) /\ Status(r) = 400
            \/ h[r].thrown = "fetch failed"

\* the id is known, the email lookup found nothing, and the answer is 400
C15_Witness ==
  \E r \in Reqs :
    /\ PastChecks(r) /\ HandledTopic(r)
    /\ h[r].customerId # NoId /\ h[r].email = <<>>
    /\ AnswersTo(r, "emailById") = <<"notfound">>
    /\ Responded(r) /\ Status(r) = 400

\* the nested customer of an orders/* payload is a customer of the source
\* system, with the email it has there
NestedCustomerGenuine(r) ==
  LET b == h[r].req.body
  IN  /\ startsWith(h[r].req.topic, "orders")
      /\ b.cid \in DOMAIN shop /\ shop[b.cid].exists
      /\ b.cemail = shop[b.cid].email

\* C16: for an orders/* payload whose nested customer is genuine (whatever
\* its top-level email is), once the profile is computed from a record the
\* source system returned, that record is the one of the customer who has
\* the resolved email, the email the CRM contacts are searched, created and
\* patched under.
C16_EmailAndIdSameCustomer ==
  \A r \in Reqs :
    (PastChecks(r) /\ NestedCustomerGenuine(r) /\ h[r].norm # None /\ ~h[r].meta.notFound) =>
      /\ h[r].usedShopifyId \in DOMAIN shop /\ shop[h[r].usedShopifyId].exists
      /\ h[r].usedShopifyId \in ShopSearchByEmail(h[r].email)

\* a source-system call of request r was answered with a status that is
\* neither ok nor 404
SourceError(r) == \E i \in 1..Len(h[r].answers) : h[r].answers[i] = "error"

\* C17: once a source-system call (email by id, id by email, loyalty fetch)
\* has been answered with a non-ok status other than not-found, the request
\* issues no CRM write and has no success response.
C17_SourceFailureIsHard ==
  \A r \in Reqs :
    SourceError(r) => CrmWrites(r) = <<>> /\ ~Success(r)

\* C18: for an orders/* payload in which both the nested customer's email and
\* the top-level email are present (and the customer id is), the email the request resolves, and
\* searches the CRM with, is the nested customer's (lower-cased).
C18_NestedEmailFirst ==
  \A r \in Reqs :
    (/\ PastChecks(r) /\ startsWith(h[r].req.topic, "orders")
     /\ h[r].req.body.cemail # <<>> /\ h[r].req.body.email # <<>>
     /\ h[r].req.body.cid # NoId) =>
      /\ h[r].email = toLowerCase(h[r].req.body.cemail)
      /\ \A i \in 1..Len(h[r].calls) :
            h[r].calls[i].op = "search" => h[r].calls[i].email = toLowerCase(h[r].req.body.cemail)

UpperCase == {"A", "B"}
IsLowerCase(s) == \A i \in 1..Len(s) : s[i] \notin UpperCase

\* the letter a character stands for, whatever its case
Letter(c) == IF c \in {"a", "A"} THEN 1 ELSE IF c \in {"b", "B"} THEN 2 ELSE 0
SameModuloCase(s, u) == Len(s) = Len(u) /\ \A i \in 1..Len(s) : Letter(s[i]) = Letter(u[i])

\* C19: every email the handler sends to a collaborator (source email search,
\* CRM search, CRM create) or returns in a response has no upper-case
\* letter; the email resolved from a customers/* payload is the payload's
\* modulo case, and the one looked up by id is the customer's modulo case,
\* so payloads that differ only in the case of the email search the CRM
\* with one and the same key.
C19_EmailsLowerCased ==
  \A r \in Reqs :
    /\ IsLowerCase(h[r].email)
    /\ \A i \in 1..Len(h[r].calls) : IsLowerCase(h[r].calls[i].email)
    /\ Responded(r) => IsLowerCase(h[r].response[1].email)
    /\ \A i \in 1..Len(h[r].calls) :
          h[r].calls[i].op \in {"search", "create", "idByEmail"} =>
            /\ h[r].calls[i].email = h[r].email
            /\ (startsWith(h[r].req.topic, "customers") /\ h[r].req.body.email # <<>>) =>
                  SameModuloCase(h[r].calls[i].email, h[r].req.body.email)
            /\ AnswersTo(r, "emailById") = <<"ok">> =>
                  SameModuloCase(h[r].calls[i].email, shop[h[r].customerId].email)

\* the email came from the lookup by id, where it is "B", and the CRM was
\* searched, and the response sent, with "b"
C19_Witness ==
  \E r \in Reqs :
    /\ AnswersTo(r, "emailById") = <<"ok">>
    /\ shop[h[r].customerId].email = <<"B">>
    /\ \E i \in 1..Len(h[r].calls) :
          h[r].calls[i].op = "search" /\ h[r].calls[i].email = <<"b">>
    /\ Success(r) /\ h[r].response[1].email = <<"b">>

LoyaltyProperties == {"loyalty_enabled", "loyalty_points", "loyalty_referral_link", "loyalty_tier"}

\* the ids the search or the create of request r returned
ReturnedIds(r) ==
  (IF h[r].ids = None THEN {} ELSE {h[r].ids[1][i] : i \in 1..Len(h[r].ids[1])})
    \cup (IF h[r].newId = NoId THEN {} ELSE {h[r].newId})

\* C20: every patch carries loyalty properties only and goes to an id that
\* the search or the create of the same request returned; the contacts the
\* CRM had before the request keep their email, creation date and other
\* fields, those of them that no patch of the request has reached are as
\* they were, and the only new contact is the one the request created,
\* under the resolved email.
C20_PatchFrame ==
  \A r \in Reqs :
    /\ \A i \in 1..Len(h[r].calls) :
          h[r].calls[i].op = "patch" =>
            /\ DOMAIN h[r].calls[i].props[1] \subseteq LoyaltyProperties
            /\ h[r].calls[i].id \in ReturnedIds(r)
    /\ h[r].settled \subseteq ReturnedIds(r)
    /\ LET old == DOMAIN crm \ Created
           before == CrmState(Cardinality(old \ {201}), 201 \in old)
       IN  /\ Cardinality(old \ {201}) <= MaxDup
           /\ old = DOMAIN before
           /\ \A c \in old :
                 /\ crm[c].email = before[c].email
                 /\ crm[c].createdate = before[c].createdate
                 /\ crm[c].other = before[c].other
                 /\ c \notin h[r].settled => crm[c] = before[c]
    /\ \A c \in Created :
          /\ c = h[r].newId /\ crm[c].email = h[r].email /\ crm[c].other = ""
          /\ c \notin h[r].settled => crm[c].props = NoProps

\* two contacts of the email were patched, the contact of the other email
\* and the other fields of the patched ones are as before
C20_Witness ==
  \E r \in Reqs :
    /\ Success(r) /\ Cardinality(h[r].settled) >= 2
    /\ \A c \in h[r].settled :
          crm[c].props.loyalty_points = Some(JNum(120)) /\ crm[c].other = "keep"
    /\ 201 \in DOMAIN crm /\ crm[201] = Contact(<<"b">>, crm[201].createdate, NoProps, "keep")

\* the record customer 1 holds
RawOfCustomer == shop[1].mf[1].data

\* request r computed its profile from the record the source system returned
NormalizedRecord(r) == h[r].norm # None /\ ~h[r].meta.notFound

\* what a points value counts for: a number itself; a numeral its value,
\* separators, sign and blanks allowed; anything else 0
PointsWorth(v) ==
  CASE v.t = "num" -> v.n
    [] v = JStr(<<"1", ",", "2", "3", "4">>) -> 1234
    [] v = JStr(<<" ", "7", " ">>) -> 7
    [] v = JStr(<<"-", "3">>) -> 0 - 3
    [] OTHER -> 0

PointsOrder ==
  <<"availablePoints", "pointBalance", "pointsBalance", "balance", "points", "point_balance">>

\* the points the claim prescribes for a raw record
ExpectedPoints(raw) ==
  LET defined == {i \in 1..Len(PointsOrder) :
                    PointsOrder[i] \in DOMAIN raw /\ raw[PointsOrder[i]] # JNull}
      first == CHOOSE i \in defined : \A j \in defined : i <= j
  IN  IF defined # {} THEN PointsWorth(raw[PointsOrder[first]])
      ELSE IF {"creditedPoints", "spentAmount"} \subseteq DOMAIN raw
      THEN PointsWorth(raw["creditedPoints"]) - PointsWorth(raw["spentAmount"])
      ELSE 0

\* C21: the points of the profile are what the first non-null key in the
\* order availablePoints, pointBalance, pointsBalance, balance, points,
\* point_balance counts for (so a current key beats a legacy one); when none
\* is there and creditedPoints and spentAmount both are, their difference;
\* else 0.  "1,234" counts for 1234, text and out-of-range numbers for 0, so
\* the points are always an integer; and that integer is what is patched.
C21_Points ==
  \A r \in Reqs :
    NormalizedRecord(r) =>
      /\ h[r].norm[1].points \in Int
      /\ h[r].norm[1].points = ExpectedPoints(RawOfCustomer)
      /\ \A i \in 1..Len(h[r].calls) :
            h[r].calls[i].op = "patch" =>
              h[r].calls[i].props[1].loyalty_points = JNum(ExpectedPoints(RawOfCustomer))

\* a current and a legacy key with different values: the current one is
\* what the contact is patched with
C21_Witness ==
  \E r \in Reqs :
    /\ NormalizedRecord(r) /\ Success(r)
    /\ {"availablePoints", "points"} \subseteq DOMAIN RawOfCustomer
    /\ RawOfCustomer["availablePoints"] = JNum(10) /\ RawOfCustomer["points"] = JNum(50)
    /\ h[r].norm[1].points = 10
    /\ crm[h[r].newId].props.loyalty_points = Some(JNum(10))

\* the four values that count as true
TrueValues == {JBool(TRUE), JStr(<<"t", "r", "u", "e">>), JNum(1), JStr(<<"1">>)}

\* C22: with an enabled key in the raw record, the profile is enabled
\* exactly when the key's value is true, "true", 1 or "1"; without the key,
\* exactly when the record has at least one key; and the flag patched is the
\* profile's.
C22_Enabled ==
  \A r \in Reqs :
    NormalizedRecord(r) =>
      /\ h[r].norm[1].enabled \in BOOLEAN
      /\ "enabled" \in DOMAIN RawOfCustomer =>
            (h[r].norm[1].enabled <=> RawOfCustomer["enabled"] \in TrueValues)
      /\ "enabled" \notin DOMAIN RawOfCustomer =>
            (h[r].norm[1].enabled <=> DOMAIN RawOfCustomer # {})
      /\ \A i \in 1..Len(h[r].calls) :
            h[r].calls[i].op = "patch" =>
              h[r].calls[i].props[1].loyalty_enabled = JBool(h[r].norm[1].enabled)

\* a record with data whose flag is the text "yes": the contact is patched
\* as not enabled
C22_Witness ==
  \E r \in Reqs :
    /\ NormalizedRecord(r) /\ Success(r)
    /\ {"enabled", "availablePoints"} \subseteq DOMAIN RawOfCustomer
    /\ RawOfCustomer["enabled"] = JStr(<<"y", "e", "s">>)
    /\ ~h[r].norm[1].enabled
    /\ crm[h[r].newId].props.loyalty_enabled = Some(JBool(FALSE))

\* C23: when the CRM held no contact under an email before the two
\* concurrently handled requests, the contacts created under that email by
\* the two together are at most one.
C23_AtMostOneCreate ==
  \A e \in {<<"a">>, <<"b">>} :
    {c \in DOMAIN crm \ Created : crm[c].email = e} = {} =>
      Cardinality({c \in Created : crm[c].email = e}) <= 1

====
